---- MODULE Spec2Model ----
(***************************************************************************)
(* Model of leaflet-gsheets.js: a Leaflet map with a basemap and two data  *)
(* layers (state polygons, law markers).  Each layer type is fed by two    *)
(* asynchronous arrivals, a static JSON snapshot ($.getJSON) and a live    *)
(* spreadsheet (Tabletop.init), which call addPolygons / addPoints.        *)
(*                                                                         *)
(* JavaScript values: a string is a TLA+ string, a table row is a record   *)
(* whose DOMAIN is the set of columns the row has, the value `undefined`   *)
(* is Undefined.  A layer object is a record; its identity is (kind, by),  *)
(* `by` being the arrival whose handler constructed it (each arrival       *)
(* fires once, so each constructs at most one layer object).               *)
(***************************************************************************)
EXTENDS Integers, Sequences, FiniteSets, TLC

VARIABLES
    mapLayers,        \* the layer objects currently attached to `map`
    polygonLayer,     \* var polygonLayer  (line 46)
    pointGroupLayer,  \* var pointGroupLayer (line 47)
    inflight,         \* requests issued whose callback has not yet run
    domLoaded,        \* DOMContentLoaded has fired and init() has run
    last              \* history: per layer type, the latest handler call

vars == <<mapLayers, polygonLayer, pointGroupLayer, inflight, domLoaded, last>>

----------------------------------------------------------------------------
(* Bounds of the checked inputs *)

\* longest table of StateRows delivered to addPolygons in SpecPolygons
MaxStateRows == 2
\* longest table of LawRows delivered to addPoints in SpecPoints
MaxLawRows == 2
\* longest table delivered to either handler in Spec
MaxFewRows == 2

----------------------------------------------------------------------------
(* JavaScript values *)

\* the value `undefined`: an unassigned var, a column a row does not have
Undefined == "<undefined>"

\* row[col]: property access; a missing property reads as undefined
Get(row, col) == IF col \in DOMAIN row THEN row[col] ELSE Undefined

\* the four data arrivals
SnapshotStates == "getJSON:US-states-leaflet.json"
SnapshotLaws == "getJSON:US-environmental-laws.json"
SheetLaws == "Tabletop:lawsURL"
SheetStates == "Tabletop:statesURL"

PolygonArrivals == {SnapshotStates, SheetStates}
PointArrivals == {SnapshotLaws, SheetLaws}

----------------------------------------------------------------------------
(* JSON.parse on the texts used for the geometry column.  A text is the    *)
(* sequence of its lexical tokens; the grammar is the JSON subset of       *)
(* arrays of digits: value ::= digit | "[" [ value { "," value } ] "]".    *)

Digits == <<"0", "1", "2", "3", "4", "5", "6", "7", "8", "9">>

IsDigit(tok) == \E i \in DOMAIN Digits : Digits[i] = tok

NumVal(tok) == (CHOOSE i \in DOMAIN Digits : Digits[i] = tok) - 1

ParseFail == [ok |-> FALSE, val |-> <<>>, next |-> 0]

RECURSIVE ParseValue(_, _)
RECURSIVE ParseElements(_, _, _)

\* the elements of an array after its "[" or after a ",", up to its "]"
ParseElements(toks, i, acc) ==
    LET v == ParseValue(toks, i) IN
    IF ~v.ok THEN ParseFail
    ELSE IF v.next > Len(toks) THEN ParseFail
    ELSE IF toks[v.next] = "]"
         THEN [ok |-> TRUE, val |-> Append(acc, v.val), next |-> v.next + 1]
    ELSE IF toks[v.next] = ","
         THEN ParseElements(toks, v.next + 1, Append(acc, v.val))
    ELSE ParseFail

\* one JSON value starting at token i
ParseValue(toks, i) ==
    IF i > Len(toks) THEN ParseFail
    ELSE IF IsDigit(toks[i])
         THEN [ok |-> TRUE, val |-> NumVal(toks[i]), next |-> i + 1]
    ELSE IF toks[i] = "["
         THEN IF i + 1 <= Len(toks) /\ toks[i + 1] = "]"
              THEN [ok |-> TRUE, val |-> <<>>, next |-> i + 2]
              ELSE ParseElements(toks, i + 1, <<>>)
    ELSE ParseFail

\* JSON.parse(text): the value, or a SyntaxError (threw) when the text is
\* not exactly one JSON value
JSONParse(text) ==
    LET v == ParseValue(text, 1) IN
    IF v.ok /\ v.next = Len(text) + 1
    THEN [threw |-> FALSE, val |-> v.val]
    ELSE [threw |-> TRUE, val |-> <<>>]

----------------------------------------------------------------------------
(* Input tables *)

\* geometry texts: two well-formed multi-polygon coordinate arrays, one
\* text cut off before its last "]", and the empty text
GeomA == <<"[", "[", "[", "[", "1", ",", "2", "]", "]", "]", "]">>
GeomB == <<"[", "[", "[", "[", "3", ",", "4", "]", ",", "[", "5", ",", "6", "]", "]", "]", "]">>
GeomCut == <<"[", "[", "[", "[", "1", ",", "2", "]", "]", "]">>
GeomEmpty == <<>>

WellFormedGeoms == {GeomA, GeomB}
MalformedGeoms == {GeomCut, GeomEmpty}

StateRow(inc, geom, name, summary, state, local) ==
    [include |-> inc, geometry |-> geom, name |-> name, summary |-> summary,
     state |-> state, local |-> local]

\* the row of a sheet that has no "include" column
NoIncludeRow(geom, name, summary, state, local) ==
    [geometry |-> geom, name |-> name, summary |-> summary,
     state |-> state, local |-> local]

\* StateRows for the polygon layer: every spelling of the include flag the
\* filter has to tell apart, with well-formed and malformed geometry
StateRows ==
    { StateRow("y", GeomA, "Ohio", "bag ban", "yes", "no"),
      StateRow("y", GeomB, "Utah", "recycling", "no", "yes"),
      StateRow("y", GeomCut, "Iowa", "none", "no", "no"),
      StateRow("Y", GeomA, "Ohio", "bag ban", "yes", "no"),
      StateRow("n", GeomEmpty, "Guam", "none", "no", "no"),
      StateRow(" y", GeomB, "Utah", "recycling", "no", "yes"),
      StateRow("", GeomA, "Ohio", "bag ban", "yes", "no"),
      NoIncludeRow(GeomB, "Utah", "recycling", "no", "yes") }

\* the StateRows delivered in Spec
FewStateRows ==
    { StateRow("y", GeomA, "Ohio", "bag ban", "yes", "no"),
      StateRow("y", GeomCut, "Iowa", "none", "no", "no"),
      StateRow("n", GeomEmpty, "Guam", "none", "no", "no") }

LawRow(lat, long, location, category, level) ==
    [lat |-> lat, long |-> long, location |-> location,
     category |-> category, level |-> level]

\* the row of a sheet that has no "category" column
NoCategoryRow(lat, long, location, level) ==
    [lat |-> lat, long |-> long, location |-> location, level |-> level]

\* LawRows for the point layer: every category getColor has to tell apart
LawRows ==
    { LawRow("34.05", "-118.24", "Los Angeles", "Bag Ban", "city"),
      LawRow("44.56", "-72.58", "Vermont", "Recycling", "state"),
      LawRow("47.61", "-122.33", "Seattle", "Composting", "city"),
      LawRow("40.71", "-74.01", "New York", "", "city"),
      NoCategoryRow("x", "", "Nowhere", "state") }

\* the LawRows delivered in Spec
FewLawRows ==
    { LawRow("34.05", "-118.24", "Los Angeles", "Bag Ban", "city"),
      LawRow("44.56", "-72.58", "Vermont", "Recycling", "state") }

\* the tables of at most n rows drawn from rows
Tables(rows, n) == UNION { [1..k -> rows] : k \in 0..n }

----------------------------------------------------------------------------
(* The map and its layers *)

\* basemap: the Carto Positron tile layer
Basemap == [kind |-> "tileLayer", by |-> "script", content |-> <<>>]

\* the value of a layer var that has not been assigned yet
NoLayer == [kind |-> "undefined", by |-> "none", content |-> <<>>]

\* `layer != null`
IsAssignedNever(layer) == FALSE

IsAssigned(layer) == layer # NoLayer

\* layer.remove(): the map's layers without layer (no effect when the layer
\* is not on the map)
RemoveKeeps(layer, layers) == layers

RemoveClearsMap(layer, layers) == {}

Remove(layer, layers) == layers \ {layer}

\* layer.addTo(map)
AddTo(layer, layers) == layers \cup {layer}

poylgonStyle == [color |-> "#2ca25f", fillColor |-> "#99d8c9", weight |-> "1.5"]

----------------------------------------------------------------------------
(* addPolygons *)

\* data[row].include == "y"
IncludedAnyCase(row) == Get(row, "include") \in {"y", "Y"}

Included(row) == Get(row, "include") = "y"

\* the Feature pushed for an included row, coords being its parsed geometry
FeatureSwapsProperties(row, coords) ==
    [type |-> "Feature",
     geometry |-> [type |-> "MultiPolygon", coordinates |-> coords],
     properties |-> [name |-> Get(row, "name"),
                     summary |-> Get(row, "summary"),
                     state |-> Get(row, "local"),
                     local |-> Get(row, "state")]]

Feature(row, coords) ==
    [type |-> "Feature",
     geometry |-> [type |-> "MultiPolygon", coordinates |-> coords],
     properties |-> [name |-> Get(row, "name"),
                     summary |-> Get(row, "summary"),
                     state |-> Get(row, "state"),
                     local |-> Get(row, "local")]]

\* JSON.parse(data[row].geometry) as addPolygons calls it
ParseGeometryLenient(row) ==
    LET p == JSONParse(row.geometry) IN
    IF p.threw THEN [threw |-> FALSE, val |-> <<>>] ELSE p

ParseGeometry(row) == JSONParse(row.geometry)

\* the for-in loop over data from index row on: the features pushed, or
\* threw when JSON.parse raised on an included row (the loop stops there)
RECURSIVE FeatureLoop(_, _, _)
FeatureLoop(data, row, features) ==
    IF row > Len(data) THEN [threw |-> FALSE, features |-> features]
    ELSE IF Included(data[row])
         THEN LET coords == ParseGeometry(data[row]) IN
              IF coords.threw
              THEN [threw |-> TRUE, features |-> features]
              ELSE FeatureLoop(data, row + 1,
                               Append(features, Feature(data[row], coords.val)))
    ELSE FeatureLoop(data, row + 1, features)

\* geojsonStates after the loop
GeojsonStates(data) == FeatureLoop(data, 1, <<>>)

\* L.geoJSON(geojsonStates, {onEachFeature, style}): one styled sub-layer
\* per feature, with its popup bound.  The mouseover / mouseout handlers
\* restyle one sub-layer and the click handler is empty; none of them
\* attaches, detaches or assigns a layer, and they are left out.
GeoJSON(by, features) ==
    [kind |-> "geoJSON", by |-> by,
     content |-> [i \in 1..Len(features) |->
                    [feature |-> features[i],
                     popup |-> <<"<h2>", features[i].properties.name, "</h2><p>",
                                 features[i].properties.summary, "</p>">>,
                     style |-> poylgonStyle]]]

\* addPolygons(data), called by arrival by
addPolygons(by, data) ==
    LET removed == IF IsAssigned(polygonLayer)
                   THEN Remove(polygonLayer, mapLayers)
                   ELSE mapLayers
        geojsonStates == GeojsonStates(data)
    IN  /\ IF geojsonStates.threw
           THEN /\ mapLayers' = removed
                /\ UNCHANGED polygonLayer
           ELSE /\ polygonLayer' = GeoJSON(by, geojsonStates.features)
                /\ mapLayers' = AddTo(polygonLayer', removed)
        /\ last' = [last EXCEPT !.polygons = [by |-> by, data |-> data]]
        /\ UNCHANGED pointGroupLayer

----------------------------------------------------------------------------
(* addPoints *)

\* getColor(type)
getColorNoDefault(type) ==
    CASE type = "Bag Ban" -> "green"
      [] type = "Recycling" -> "blue"
      [] OTHER -> Undefined

getColor(type) ==
    CASE type = "Bag Ban" -> "green"
      [] type = "Recycling" -> "blue"
      [] OTHER -> "green"

\* the marker made for one row: position, popup and icon
Marker(row) ==
    [latlng |-> <<Get(row, "lat"), Get(row, "long")>>,
     popup |-> <<"<h2>", Get(row, "location"), "</h2>", Get(row, "category"),
                 " regulations at ", Get(row, "level"), " level">>,
     icon |-> [icon |-> "info-sign", iconColor |-> "white",
               markerColor |-> getColor(Get(row, "category")),
               prefix |-> "glyphicon", extraClasses |-> "fa-rotate-0"]]

\* the markers the for loop adds to the group, in the order it adds them
MarkersStopEarly(data) ==
    [row \in 1..(Len(data) - 1) |-> Marker(data[row])]

Markers(data) == [row \in 1..Len(data) |-> Marker(data[row])]

\* L.layerGroup() once the loop has added its markers
LayerGroup(by, markers) == [kind |-> "layerGroup", by |-> by, content |-> markers]

\* addPoints(data), called by arrival by
addPoints(by, data) ==
    LET removed == IF IsAssigned(pointGroupLayer)
                   THEN Remove(pointGroupLayer, mapLayers)
                   ELSE mapLayers
    IN  /\ pointGroupLayer' = LayerGroup(by, Markers(data))
        /\ mapLayers' = AddTo(pointGroupLayer', removed)
        /\ last' = [last EXCEPT !.points = [by |-> by, data |-> data]]
        /\ UNCHANGED polygonLayer

----------------------------------------------------------------------------
(* The program *)

NoCall == [by |-> "none", data |-> <<>>]

\* the script has run: both getJSON requests are out, the basemap is on the
\* map, both layer vars are unassigned
Init ==
    /\ mapLayers = {Basemap}
    /\ polygonLayer = NoLayer
    /\ pointGroupLayer = NoLayer
    /\ inflight = {SnapshotStates, SnapshotLaws}
    /\ domLoaded = FALSE
    /\ last = [polygons |-> NoCall, points |-> NoCall]

\* DOMContentLoaded: init() issues the two Tabletop requests
init ==
    /\ ~domLoaded
    /\ domLoaded' = TRUE
    /\ inflight' = inflight \cup {SheetLaws, SheetStates}
    /\ UNCHANGED <<mapLayers, polygonLayer, pointGroupLayer, last>>

\* the snapshot of the states table arrives
SnapshotStatesArrive(stateTables) ==
    /\ SnapshotStates \in inflight
    /\ \E json \in stateTables : addPolygons(SnapshotStates, json)
    /\ inflight' = inflight \ {SnapshotStates}
    /\ UNCHANGED domLoaded

\* the snapshot of the laws table arrives
SnapshotLawsArrive(lawTables) ==
    /\ SnapshotLaws \in inflight
    /\ \E json \in lawTables : addPoints(SnapshotLaws, json)
    /\ inflight' = inflight \ {SnapshotLaws}
    /\ UNCHANGED domLoaded

\* Tabletop delivers the laws sheet
SheetLawsArrive(lawTables) ==
    /\ SheetLaws \in inflight
    /\ \E data \in lawTables : addPoints(SheetLaws, data)
    /\ inflight' = inflight \ {SheetLaws}
    /\ UNCHANGED domLoaded

\* Tabletop delivers the states sheet
SheetStatesArrive(stateTables) ==
    /\ SheetStates \in inflight
    /\ \E data \in stateTables : addPolygons(SheetStates, data)
    /\ inflight' = inflight \ {SheetStates}
    /\ UNCHANGED domLoaded

\* the whole program, both layer types on small tables
Next ==
    \/ init
    \/ SnapshotStatesArrive(Tables(FewStateRows, MaxFewRows))
    \/ SnapshotLawsArrive(Tables(FewLawRows, MaxFewRows))
    \/ SheetLawsArrive(Tables(FewLawRows, MaxFewRows))
    \/ SheetStatesArrive(Tables(FewStateRows, MaxFewRows))

Spec == Init /\ [][Next]_vars

\* the arrivals of the polygon layer on every StateRow (the runs in which
\* the laws requests are still pending)
NextPolygons ==
    \/ init
    \/ SnapshotStatesArrive(Tables(StateRows, MaxStateRows))
    \/ SheetStatesArrive(Tables(StateRows, MaxStateRows))

SpecPolygons == Init /\ [][NextPolygons]_vars

\* the arrivals of the point layer on every LawRow (the runs in which the
\* states requests are still pending)
NextPoints ==
    \/ init
    \/ SnapshotLawsArrive(Tables(LawRows, MaxLawRows))
    \/ SheetLawsArrive(Tables(LawRows, MaxLawRows))

SpecPoints == Init /\ [][NextPoints]_vars

----------------------------------------------------------------------------
(* Vocabulary of the properties *)

\* the layers of each type attached to the map
PolygonsOnMap == {l \in mapLayers : l.kind = "geoJSON"}
PointsOnMap == {l \in mapLayers : l.kind = "layerGroup"}

\* the callback of arrival a has run
Ran(a) == a \notin inflight /\ (a \in {SnapshotStates, SnapshotLaws} \/ domLoaded)

\* the indices of the rows of data whose include column is the string "y"
YRows(data) ==
    {i \in 1..Len(data) : "include" \in DOMAIN data[i] /\ data[i].include = "y"}

\* the k-th smallest member of the set of indices S
Nth(S, k) == CHOOSE i \in S : Cardinality({j \in S : j < i}) = k - 1

\* every row of data that has include "y" has well-formed geometry
IncludedParseable(data) ==
    \A i \in YRows(data) : data[i].geometry \in WellFormedGeoms

\* this step is a call of addPolygons / of addPoints
PolygonsCalled == last'.polygons # last.polygons
PointsCalled == last'.points # last.points

----------------------------------------------------------------------------
(* C1 *)

\* C1: after a call of addPolygons on a table whose rows with include "y"
\* all have parseable geometry, the layer built by that call has exactly one
\* feature per row whose include is exactly "y", in row order, and none for
\* any other row ("Y", " y", "n", "", no include column).
C1_IncludeFilter ==
    LET data == last.polygons.data IN
    (last.polygons.by # "none" /\ IncludedParseable(data)) =>
        /\ polygonLayer.by = last.polygons.by
        /\ Len(polygonLayer.content) = Cardinality(YRows(data))
        /\ \A k \in 1..Len(polygonLayer.content) :
              polygonLayer.content[k].feature.properties.name
                  = data[Nth(YRows(data), k)].name

\* a two-row table with one "y" row and one "Y" row gave a one-feature layer
C1_Witness ==
    LET data == last.polygons.data IN
    /\ last.polygons.by # "none"
    /\ Len(data) = 2
    /\ Get(data[1], "include") = "Y"
    /\ Get(data[2], "include") = "y"
    /\ polygonLayer.by = last.polygons.by
    /\ Len(polygonLayer.content) = 1

----------------------------------------------------------------------------
(* C6 *)

\* C6: every feature of the layer built by the latest addPolygons call has
\* geometry type "MultiPolygon" and properties exactly name, summary, state
\* and local with the values of the row it was made from.
C6_FeatureProperties ==
    LET data == last.polygons.data IN
    (last.polygons.by # "none" /\ polygonLayer.by = last.polygons.by) =>
        \A k \in 1..Len(polygonLayer.content) :
            LET f == polygonLayer.content[k].feature
                row == data[Nth(YRows(data), k)]
            IN  /\ f.geometry.type = "MultiPolygon"
                /\ DOMAIN f.properties = {"name", "summary", "state", "local"}
                /\ f.properties.name = row.name
                /\ f.properties.summary = row.summary
                /\ f.properties.state = row.state
                /\ f.properties.local = row.local

\* a layer of two features made from two rows that differ in every property
C6_Witness ==
    /\ last.polygons.by # "none"
    /\ polygonLayer.by = last.polygons.by
    /\ Len(polygonLayer.content) = 2
    /\ polygonLayer.content[1].feature.properties.name = "Utah"
    /\ polygonLayer.content[2].feature.properties.name = "Ohio"

----------------------------------------------------------------------------
(* C3 *)

\* C3: once addPolygons has been called on a table whose included rows
\* parse, exactly one polygon layer is attached, the one that call built;
\* and every call of addPolygons detaches the layer that was attached
\* before it.
C3_OnePolygonLayer ==
    /\ [](last.polygons.by # "none" /\ IncludedParseable(last.polygons.data)
            => /\ PolygonsOnMap = {polygonLayer}
               /\ polygonLayer.by = last.polygons.by)
    /\ [][PolygonsCalled => \A l \in PolygonsOnMap : l \notin mapLayers']_vars

\* the second of two calls replaced a layer with features by its own
C3_Witness ==
    /\ Ran(SnapshotStates) /\ Ran(SheetStates)
    /\ last.polygons.by = SheetStates
    /\ PolygonsOnMap = {polygonLayer}
    /\ polygonLayer.by = SheetStates
    /\ Len(polygonLayer.content) = 2

----------------------------------------------------------------------------
(* C4 *)

\* some row of data, included or not, has malformed geometry
SomeRowMalformed(data) ==
    \E i \in 1..Len(data) : data[i].geometry \in MalformedGeoms

\* the latest addPolygons call left no layer of its own in the slot or on
\* the map
NoLayerOfLatestCall ==
    /\ polygonLayer.by # last.polygons.by
    /\ \A l \in mapLayers : l.by # last.polygons.by

\* C4 as claimed: malformed geometry in any row, whatever its include
\* value, makes the call fail without a new layer.
C4_AnyRowMalformedFails ==
    (last.polygons.by # "none" /\ SomeRowMalformed(last.polygons.data))
        => NoLayerOfLatestCall

\* C4 amended: malformed geometry in any row whose include is "y", at any
\* position, makes the call fail without a new layer; malformed geometry in
\* a row that is not included is never parsed.
C4_IncludedRowMalformedFails ==
    (last.polygons.by # "none" /\ ~IncludedParseable(last.polygons.data))
        => NoLayerOfLatestCall

\* the malformed included row came second, after an included row that parses
C4_Witness ==
    LET data == last.polygons.data IN
    /\ last.polygons.by # "none"
    /\ Len(data) = 2
    /\ YRows(data) = {1, 2}
    /\ data[1].geometry \in WellFormedGeoms
    /\ data[2].geometry \in MalformedGeoms
    /\ NoLayerOfLatestCall

----------------------------------------------------------------------------
(* C8 *)

\* C8 as claimed: a call of addPolygons that fails on malformed geometry in
\* an included row leaves the polygon slot unchanged and the layer that was
\* attached before the call still attached.
C8_FailedBuildKeepsLayer ==
    [][(PolygonsCalled /\ ~IncludedParseable(last'.polygons.data))
         => /\ polygonLayer' = polygonLayer
            /\ PolygonsOnMap' = PolygonsOnMap]_vars

----------------------------------------------------------------------------
(* C9 *)

\* a layer var and the map agree
SlotConsistent(slot, onMap) ==
    \/ slot = NoLayer /\ onMap = {}
    \/ slot # NoLayer /\ onMap = {slot}

\* C9 as claimed: in every reachable state each slot is empty with no layer
\* of its type attached, or references the one layer of its type attached.
C9_SlotsConsistent ==
    /\ SlotConsistent(polygonLayer, PolygonsOnMap)
    /\ SlotConsistent(pointGroupLayer, PointsOnMap)

----------------------------------------------------------------------------
(* C5 *)

\* C5: after addPoints on a table of N rows the attached group holds N
\* markers, the i-th at the lat/long of the i-th row and with its location
\* in the popup.
C5_MarkerPerRow ==
    LET data == last.points.data IN
    last.points.by # "none" =>
        /\ pointGroupLayer \in mapLayers
        /\ pointGroupLayer.by = last.points.by
        /\ Len(pointGroupLayer.content) = Len(data)
        /\ \A i \in 1..Len(data) :
              /\ pointGroupLayer.content[i].latlng = <<data[i].lat, data[i].long>>
              /\ pointGroupLayer.content[i].popup[2] = data[i].location

\* a table that repeats one row gave two markers
C5_Witness ==
    LET data == last.points.data IN
    /\ last.points.by # "none"
    /\ Len(data) = 2
    /\ data[1] = data[2]
    /\ pointGroupLayer \in mapLayers
    /\ Len(pointGroupLayer.content) = 2

----------------------------------------------------------------------------
(* C7 *)

\* the categories of the LawRows, undefined for a row without the column
Categories == {Get(r, "category") : r \in LawRows}

\* C7: getColor is blue for "Recycling" and green for every other category,
\* the empty string and undefined included, and each marker of the latest
\* addPoints call has the color of its own row's category.
C7_MarkerColor ==
    /\ \A c \in Categories : getColor(c) = IF c = "Recycling" THEN "blue" ELSE "green"
    /\ LET data == last.points.data IN
       last.points.by # "none" =>
          \A i \in 1..Len(pointGroupLayer.content) :
              pointGroupLayer.content[i].icon.markerColor
                  = IF "category" \in DOMAIN data[i] /\ data[i].category = "Recycling"
                    THEN "blue" ELSE "green"

\* a Recycling row next to a row without a category
C7_Witness ==
    LET data == last.points.data IN
    /\ last.points.by # "none"
    /\ Len(data) = 2
    /\ "category" \notin DOMAIN data[1]
    /\ Get(data[2], "category") = "Recycling"
    /\ pointGroupLayer.content[1].icon.markerColor = "green"
    /\ pointGroupLayer.content[2].icon.markerColor = "blue"

----------------------------------------------------------------------------
(* C2 *)

\* the names of the rows of data with include "y", in row order
IncludedNames(data) ==
    [k \in 1..Cardinality(YRows(data)) |-> data[Nth(YRows(data), k)].name]

\* the attached polygon layer is the one the latest addPolygons call built
\* from its data
PolygonsShowLatest ==
    /\ PolygonsOnMap = {polygonLayer}
    /\ polygonLayer.by = last.polygons.by
    /\ [k \in 1..Len(polygonLayer.content) |->
           polygonLayer.content[k].feature.properties.name]
         = IncludedNames(last.polygons.data)

\* the attached point group is the one the latest addPoints call built from
\* its data
PointsShowLatest ==
    /\ PointsOnMap = {pointGroupLayer}
    /\ pointGroupLayer.by = last.points.by
    /\ [i \in 1..Len(pointGroupLayer.content) |->
           pointGroupLayer.content[i].popup[2]]
         = [i \in 1..Len(last.points.data) |-> last.points.data[i].location]

----------------------------------------------------------------------------
(* C10 *)

\* C10: a call of addPolygons, failing or not, leaves the point slot and the
\* attached point group unchanged; a call of addPoints leaves the polygon
\* slot and the attached polygon layer unchanged; the basemap is attached
\* in every reachable state.
C10_LayerTypesIndependent ==
    /\ [](Basemap \in mapLayers)
    /\ [][/\ PolygonsCalled =>
               pointGroupLayer' = pointGroupLayer /\ PointsOnMap' = PointsOnMap
          /\ PointsCalled =>
               polygonLayer' = polygonLayer /\ PolygonsOnMap' = PolygonsOnMap]_vars

\* both layers were replaced once and sit on the map beside the basemap
C10_Witness ==
    /\ inflight = {} /\ domLoaded
    /\ mapLayers = {Basemap, polygonLayer, pointGroupLayer}
    /\ Len(polygonLayer.content) = 2
    /\ Len(pointGroupLayer.content) = 1

====
